---- MODULE Spec2Model ----
(***************************************************************************)
(* proc-peek: the snapshot collector of src/proc_peek/process_info.py      *)
(* (get_process_list, get_process_info, get_system_info, kill_process)     *)
(* driven by a caller that invokes one function at a time against a       *)
(* nondeterministic platform metrics provider (psutil).                    *)
(*                                                                         *)
(* Three specifications share the state:                                   *)
(*  - Spec: the four collector functions, get_process_list step by step;   *)
(*  - SpecTui (SpecTuiFair with the timer's fairness): the handlers of the *)
(*    Textual application of src/proc_peek/tui.py, one at a time on the    *)
(*    event loop; a handler that refreshes the process list holds the loop *)
(*    across get_process_list's sleep;                                     *)
(*  - SpecCli: the list command of src/proc-peek/cli.py.                   *)
(*                                                                         *)
(* Conventions.                                                            *)
(*  - A process name in a list record is the sequence of the code points  *)
(*    of its characters (<<97>> is "a", <<66>> is "B"): str.lower() and    *)
(*    Python's string comparison are computed on the code points.          *)
(*  - Percentages are whole numbers (1 stands for 1.0).                    *)
(*  - Python's None is the string "None".                                  *)
(*  - A provider query answers either a value or an exception class.      *)
(***************************************************************************)
EXTENDS Integers, Sequences, FiniteSets, TLC

\* ------------------------------------------------------------------ bounds

\* Number of process identifiers the platform can enumerate.
MaxProcs == 3

\* ------------------------------------------------------- provider domains

\* The identifiers psutil.pids() may list: 10, 20, 30, ...
Pids == {10 * i : i \in 1..MaxProcs}

None == "None"

\* The exception classes the provider raises.
NoSuchProcess == "NoSuchProcess"
AccessDenied == "AccessDenied"
ZombieProcess == "ZombieProcess"
AttributeError == "AttributeError"
OSError == "OSError"

\* psutil's hierarchy: ZombieProcess derives from NoSuchProcess; Exception is
\* the base of every class. IsInstance(e, c): an `except c` clause catches e.
IsInstance(e, c) ==
    \/ e = c
    \/ c = "Exception"
    \/ (e = ZombieProcess /\ c = NoSuchProcess)

\* An `except (c1, c2, ...)` clause: caught when e is an instance of one class.
Catches(classes, e) == \E c \in classes : IsInstance(e, c)

\* The per-process failures of spec section 6.
ProcessErrors == {NoSuchProcess, AccessDenied, ZombieProcess}

\* Names the provider reports, as code points: "a" and "B" ("B" < "a" as
\* written, "a" < "b" once lowered).
Names == {<<97>>, <<66>>}
CpuValues == {1, 25, 50}
MemValues == {0, 5}
StatusValues == {"running"}

\* ------------------------------------------------------------ pure helpers

\* str.lower() on one code point: "A".."Z" (65..90) map to "a".."z".
LowerChar(c) == IF c >= 65 /\ c <= 90 THEN c + 32 ELSE c

\* str.lower(): every character lowered.
Lower(s) == [i \in 1..Len(s) |-> LowerChar(s[i])]

\* Python's str < str: lexicographic on code points, a proper prefix is less.
RECURSIVE StrLess(_, _)
StrLess(s, t) ==
    IF t = <<>> THEN FALSE
    ELSE IF s = <<>> THEN TRUE
    ELSE IF Head(s) # Head(t) THEN Head(s) < Head(t)
    ELSE StrLess(Tail(s), Tail(t))

\* list.reverse()
Reverse(s) == [i \in 1..Len(s) |-> s[Len(s) + 1 - i]]

\* The sort key each branch of get_process_list passes to list.sort.
SortKeys == {"cpu", "memory", "name", "pid"}

KeyOf(sort_by, x) ==
    CASE sort_by = "cpu" -> x.cpu_percent
      [] sort_by = "memory" -> x.memory_percent
      [] sort_by = "name" -> Lower(x.name)
      [] sort_by = "pid" -> x.pid

\* key(a) < key(b) for the key of sort_by.
KeyLess(sort_by, a, b) ==
    IF sort_by = "name"
    THEN StrLess(KeyOf(sort_by, a), KeyOf(sort_by, b))
    ELSE KeyOf(sort_by, a) < KeyOf(sort_by, b)

\* One insertion of list.sort's stable ascending order: x goes after every
\* element whose key is not greater than its own.
RECURSIVE InsertStable(_, _, _)
InsertStable(sort_by, sorted, x) ==
    IF sorted = <<>> THEN <<x>>
    ELSE IF KeyLess(sort_by, x, Head(sorted))
         THEN <<x>> \o sorted
         ELSE <<Head(sorted)>> \o InsertStable(sort_by, Tail(sorted), x)

\* list.sort(key=...): stable, ascending.
RECURSIVE StableSort(_, _)
StableSort(sort_by, s) ==
    IF s = <<>> THEN <<>>
    ELSE InsertStable(sort_by, StableSort(sort_by, SubSeq(s, 1, Len(s) - 1)), s[Len(s)])

\* Mutant of ListSort: the descending order obtained by sorting ascending and
\* reversing afterwards, which turns the order of equal keys around.
ListSortThenReverse(sort_by, s, reverse) ==
    IF reverse THEN Reverse(StableSort(sort_by, s))
    ELSE StableSort(sort_by, s)

\* list.sort(key=..., reverse=...): with reverse the list is reversed, sorted
\* stably and reversed again, so equal keys keep their original order.
ListSort(sort_by, s, reverse) ==
    IF reverse THEN Reverse(StableSort(sort_by, Reverse(s)))
    ELSE StableSort(sort_by, s)

\* Mutant of SortResult: reverse=True forgotten on the cpu branch.
SortResultCpuAscending(sort_by, res) ==
    IF sort_by = "cpu" THEN ListSort("cpu", res, FALSE)
    ELSE IF sort_by = "memory" THEN ListSort("memory", res, TRUE)
    ELSE IF sort_by = "name" THEN ListSort("name", res, FALSE)
    ELSE IF sort_by = "pid" THEN ListSort("pid", res, FALSE)
    ELSE res

\* The if/elif chain that ends get_process_list.
SortResult(sort_by, res) ==
    IF sort_by = "cpu" THEN ListSort("cpu", res, TRUE)
    ELSE IF sort_by = "memory" THEN ListSort("memory", res, TRUE)
    ELSE IF sort_by = "name" THEN ListSort("name", res, FALSE)
    ELSE IF sort_by = "pid" THEN ListSort("pid", res, FALSE)
    ELSE res

\* ------------------------------------------------------------------- state

VARIABLES
    pc,         \* where the caller is: "idle", inside get_process_list, or at a return
    sort_by,    \* get_process_list: the sort_by argument
    pids,       \* get_process_list: what psutil.pids() returned
    idx,        \* get_process_list: position of the running for loop
    processes,  \* get_process_list: the handles primed in the first pass
    result,     \* get_process_list: the records collected in the second pass
    cpu_calls,  \* the values the cpu_percent() calls on each handle of this call answered
    failed,     \* the pids for which a provider query raised during this call
    call,       \* the arguments of the function called last
    prov,       \* the provider's answers to that call
    signals,    \* the signals sent to processes during that call, in order
    ret         \* what the call returned (or the exception that escaped it)

\* The front ends: the Textual application of tui.py and the list command of
\* cli.py. The rendering toolkit itself is outside the model: a widget call is
\* taken to do what its name says, and awaiting the pushed dialog answers the
\* value the dialog was dismissed with.
VARIABLES
    table_processes,  \* ProcessTable.processes
    sort_field,       \* ProcessTable.sort_field
    selected_pid,     \* ProcessTable.selected_pid
    detail_pid,       \* ProcessDetail.pid
    detail_content,   \* the panel #process_detail_content shows
    dialog,           \* the KillConfirmDialog on the screen stack, if any
    busy,             \* the handler that is inside get_process_list's sleep, "none" if none
    event,            \* the handler that ran last: its calls, kill_process's result, its notification
    gone,             \* the process that has exited for good, if any
    stdout            \* what the list command has printed

frontVars == <<table_processes, sort_field, selected_pid, detail_pid, detail_content,
               dialog, busy, event, gone, stdout>>

vars == <<pc, sort_by, pids, idx, processes, result, cpu_calls, failed, call, prov, signals, ret,
          frontVars>>

listVars == <<sort_by, pids, idx, processes, result, cpu_calls, failed>>

NoCall == [fn |-> "none"]
NoAnswer == [fn |-> "none"]
NoReturn == [raised |-> FALSE, value |-> None]

\* selected_pid = reactive(-1), self.pid = -1: no process.
NoPid == -1

\* Panel("Select a process to view details", title="Process Detail")
Placeholder == [pid |-> NoPid, name |-> "", body |-> "Select a process to view details"]

NoDialog == [open |-> FALSE, pid |-> NoPid, process_name |-> <<>>]
NoNotice == [title |-> "none", message |-> ""]
NoResult == [success |-> FALSE, error |-> None]
NoEvent ==
    [name |-> "none", selected_before |-> NoPid, calls |-> <<>>, result |-> NoResult,
     notify |-> NoNotice]

\* The widgets after construction and mount, before any timer has fired.
FrontInit ==
    /\ table_processes = <<>>
    /\ sort_field = "cpu"
    /\ selected_pid = NoPid
    /\ detail_pid = NoPid
    /\ detail_content = Placeholder
    /\ dialog = NoDialog
    /\ busy = "none"
    /\ event = NoEvent
    /\ gone = {}
    /\ stdout = <<>>

\* psutil.pids() answers "a sorted list of current running PIDs": the ascending
\* sequence of the members of S.
RECURSIVE SortedPids(_)
SortedPids(S) ==
    IF S = {} THEN <<>>
    ELSE LET m == CHOOSE x \in S : \A y \in S : x <= y
         IN <<m>> \o SortedPids(S \ {m})

\* Every answer of psutil.pids(): any set of running processes, none twice.
Enumerations == {SortedPids(S) : S \in SUBSET Pids}

Init ==
    /\ pc = "idle"
    /\ sort_by = "cpu"
    /\ pids = <<>>
    /\ idx = 1
    /\ processes = <<>>
    /\ result = <<>>
    /\ cpu_calls = [p \in Pids |-> <<>>]
    /\ failed = {}
    /\ call = NoCall
    /\ prov = NoAnswer
    /\ signals = <<>>
    /\ ret = NoReturn
    /\ FrontInit

\* ------------------------------------------------------- get_process_list

\* Mutant of ListCaught: AccessDenied left out of the except clause.
ListCaughtWithoutAccessDenied == {NoSuchProcess, ZombieProcess}

\* The except clause of both passes of get_process_list.
ListCaught == {NoSuchProcess, AccessDenied, ZombieProcess}

\* What the provider can answer in the first pass for one pid: psutil.Process
\* and the priming cpu_percent() succeed, or one of them raises.
Phase1Answers ==
    {[ok |-> TRUE]}
        \cup {[ok |-> FALSE, at |-> a, exc |-> e] : a \in {"Process", "cpu_percent"}, e \in ProcessErrors}

\* The value of the first cpu_percent() call on a fresh handle: psutil has no
\* earlier sample to compare with and answers 0.0.
Baseline == 0

\* What the provider can answer in the second pass for one handle: the four
\* values, or the first query that raises (the later ones are never made; a
\* query that raises after cpu_percent() leaves the value cpu_percent()
\* answered behind).
Phase2Answers ==
    {[ok |-> TRUE, name |-> n, cpu_percent |-> c, memory_percent |-> m, status |-> s] :
        n \in Names, c \in CpuValues, m \in MemValues, s \in StatusValues}
        \cup {[ok |-> FALSE, at |-> a, exc |-> e] :
                a \in {"name", "cpu_percent"}, e \in ProcessErrors}
        \cup {[ok |-> FALSE, at |-> a, exc |-> e, cpu_percent |-> c] :
                a \in {"memory_percent", "status"}, e \in ProcessErrors, c \in CpuValues}

\* Mutant of ListInfo: the record reports the priming call's value.
ListInfoPrimingValue(pid, ans) ==
    [pid |-> pid, name |-> ans.name, cpu_percent |-> Baseline,
     memory_percent |-> ans.memory_percent, status |-> ans.status]

\* The info dict of the second pass.
ListInfo(pid, ans) ==
    [pid |-> pid, name |-> ans.name, cpu_percent |-> ans.cpu_percent,
     memory_percent |-> ans.memory_percent, status |-> ans.status]

\* def get_process_list(sort_by): processes = [] and psutil.pids() is read.
CallGetProcessList ==
    /\ pc = "idle"
    /\ \E s \in SortKeys, e \in Enumerations :
        /\ sort_by' = s
        /\ pids' = e
        /\ call' = [fn |-> "get_process_list", sort_by |-> s]
    /\ pc' = "phase1"
    /\ idx' = 1
    /\ processes' = <<>>
    /\ result' = <<>>
    /\ cpu_calls' = [p \in Pids |-> <<>>]
    /\ failed' = {}
    /\ UNCHANGED <<prov, signals, ret>>
    /\ UNCHANGED frontVars

\* One iteration of the first pass: open the handle, prime cpu_percent, keep
\* the handle; a caught exception skips the pid, another one escapes.
Phase1Step ==
    /\ pc = "phase1"
    /\ idx <= Len(pids)
    /\ \E ans \in Phase1Answers :
        LET pid == pids[idx] IN
        IF ans.ok
        THEN /\ processes' = Append(processes, pid)
             /\ cpu_calls' = [cpu_calls EXCEPT ![pid] = Append(@, Baseline)]
             /\ idx' = idx + 1
             /\ UNCHANGED <<pc, failed, ret>>
        ELSE IF Catches(ListCaught, ans.exc)
        THEN /\ failed' = failed \cup {pid}
             /\ idx' = idx + 1
             /\ UNCHANGED <<pc, processes, cpu_calls, ret>>
        ELSE /\ failed' = failed \cup {pid}
             /\ pc' = "raised"
             /\ ret' = [raised |-> TRUE, value |-> ans.exc]
             /\ UNCHANGED <<idx, processes, cpu_calls>>
    /\ UNCHANGED <<sort_by, pids, result, call, prov, signals>>
    /\ UNCHANGED frontVars

\* time.sleep(0.1) between the passes; result = [].
Sleep ==
    /\ pc = "phase1"
    /\ idx > Len(pids)
    /\ pc' = "phase2"
    /\ idx' = 1
    /\ result' = <<>>
    /\ UNCHANGED <<sort_by, pids, processes, cpu_calls, failed, call, prov, signals, ret>>
    /\ UNCHANGED frontVars

\* One iteration of the second pass: the four queries on a primed handle.
Phase2Step ==
    /\ pc = "phase2"
    /\ idx <= Len(processes)
    /\ \E ans \in Phase2Answers :
        LET pid == processes[idx] IN
        IF ans.ok
        THEN /\ result' = Append(result, ListInfo(pid, ans))
             /\ cpu_calls' = [cpu_calls EXCEPT ![pid] = Append(@, ans.cpu_percent)]
             /\ idx' = idx + 1
             /\ UNCHANGED <<pc, failed, ret>>
        ELSE IF Catches(ListCaught, ans.exc)
        THEN /\ failed' = failed \cup {pid}
             /\ cpu_calls' = [cpu_calls EXCEPT ![pid] =
                                IF ans.at \in {"memory_percent", "status"}
                                THEN Append(@, ans.cpu_percent) ELSE @]
             /\ idx' = idx + 1
             /\ UNCHANGED <<pc, result, ret>>
        ELSE /\ failed' = failed \cup {pid}
             /\ pc' = "raised"
             /\ ret' = [raised |-> TRUE, value |-> ans.exc]
             /\ UNCHANGED <<idx, result, cpu_calls>>
    /\ UNCHANGED <<sort_by, pids, processes, call, prov, signals>>
    /\ UNCHANGED frontVars

\* The sort and the return.
SortAndReturn ==
    /\ pc = "phase2"
    /\ idx > Len(processes)
    /\ pc' = "list_done"
    /\ ret' = [raised |-> FALSE, value |-> SortResult(sort_by, result)]
    /\ UNCHANGED <<sort_by, pids, idx, processes, result, cpu_calls, failed, call, prov, signals>>
    /\ UNCHANGED frontVars

\* ------------------------------------------------------- get_process_info

\* A provider query answers a value, raises, or (after an exception left the
\* try body) is never made.
Ok(v) == [kind |-> "ok", value |-> v]
Raise(e) == [kind |-> "raise", exc |-> e]
NotAsked == [kind |-> "notasked"]

Raises(a) == a.kind = "raise"

\* " ".join(list of strings)
RECURSIVE Join(_)
Join(l) ==
    IF l = <<>> THEN ""
    ELSE IF Len(l) = 1 THEN l[1]
    ELSE l[1] \o " " \o Join(Tail(l))

\* The queries of get_process_info, in the order the code makes them.
BasicQueries == <<"name", "status", "username", "cpu_percent", "memory_percent", "create_time">>
OptionalQueries == <<"cmdline", "exe", "memory_info", "io_counters">>

\* The values the provider can report for the basic fields of one process.
BasicValues ==
    [name : {"bash", "Xorg"}, status : {"running", "sleeping"}, username : {"root"},
     cpu_percent : {0, 7}, memory_percent : {3}, create_time : {1700}]

\* The values (or exceptions) each optional query can answer. io_counters does
\* not exist on every platform: calling it there raises AttributeError.
OptionalAnswers(q) ==
    CASE q = "cmdline" ->
            {Ok(<<>>), Ok(<<"sh", "-c">>)} \cup {Raise(e) : e \in ProcessErrors}
      [] q = "exe" ->
            {Ok("/bin/sh")} \cup {Raise(e) : e \in ProcessErrors}
      [] q = "memory_info" ->
            {Ok([rss |-> 4096, vms |-> 8192])} \cup {Raise(e) : e \in ProcessErrors}
      [] q = "io_counters" ->
            {Ok([read_bytes |-> 512, write_bytes |-> 0])}
                \cup {Raise(e) : e \in ProcessErrors \cup {AttributeError}}

\* The inner except clauses of get_process_info, and the outer one.
OptionalCaught(q) ==
    CASE q = "cmdline" -> {AccessDenied, ZombieProcess}
      [] q = "exe" -> {AccessDenied, ZombieProcess}
      [] q = "memory_info" -> {AccessDenied, ZombieProcess}
      [] q = "io_counters" -> {AccessDenied, ZombieProcess, AttributeError}

\* Mutant of InfoCaught: the outer clause catches NoSuchProcess only.
InfoCaughtNoSuchProcessOnly == {NoSuchProcess}

InfoCaught == {NoSuchProcess, AccessDenied, ZombieProcess}

\* An optional query's exception leaves the try body of the function when its
\* own except clause does not catch it.
Aborts(q, a) == Raises(a) /\ ~Catches(OptionalCaught(q), a.exc)

InfoQueries == {"Process"} \cup {BasicQueries[i] : i \in 1..6} \cup {OptionalQueries[i] : i \in 1..4}

\* psutil.Process(pid) raises: nothing else is asked.
HandleFailures ==
    {[q \in InfoQueries |-> IF q = "Process" THEN Raise(e) ELSE NotAsked] : e \in ProcessErrors}

\* The k-th basic query raises: the ones before it answered, the rest is not asked.
BasicFailures ==
    {[q \in InfoQueries |->
        IF q = "Process" THEN Ok("handle")
        ELSE IF \E i \in 1..(k - 1) : BasicQueries[i] = q THEN Ok(b[q])
        ELSE IF q = BasicQueries[k] THEN Raise(e)
        ELSE NotAsked] : k \in 1..6, e \in ProcessErrors, b \in BasicValues}

\* The answers to the four optional queries: each is made unless an earlier
\* one's exception left the try body.
OptionalRuns ==
    {o \in [cmdline : OptionalAnswers("cmdline") \cup {NotAsked},
            exe : OptionalAnswers("exe") \cup {NotAsked},
            memory_info : OptionalAnswers("memory_info") \cup {NotAsked},
            io_counters : OptionalAnswers("io_counters") \cup {NotAsked}] :
        /\ o.cmdline # NotAsked
        /\ (o.exe = NotAsked) <=> Aborts("cmdline", o.cmdline)
        /\ (o.memory_info = NotAsked) <=> (o.exe = NotAsked \/ Aborts("exe", o.exe))
        /\ (o.io_counters = NotAsked) <=>
                (o.memory_info = NotAsked \/ Aborts("memory_info", o.memory_info))}

\* The handle and the basic fields are obtained.
BasicSuccesses ==
    {[q \in InfoQueries |->
        IF q = "Process" THEN Ok("handle")
        ELSE IF \E i \in 1..6 : BasicQueries[i] = q THEN Ok(b[q])
        ELSE o[q]] : b \in BasicValues, o \in OptionalRuns}

InfoAnswers == HandleFailures \cup BasicFailures \cup BasicSuccesses

\* The exception that leaves the try body of get_process_info, "none" if none.
Escaping(ans) ==
    IF \E q \in InfoQueries : Raises(ans[q]) /\ (q \in {"Process"} \cup {BasicQueries[i] : i \in 1..6})
    THEN (ans[CHOOSE q \in InfoQueries :
                Raises(ans[q]) /\ (q \in {"Process"} \cup {BasicQueries[i] : i \in 1..6})]).exc
    ELSE IF \E i \in 1..4 : Aborts(OptionalQueries[i], ans[OptionalQueries[i]])
    THEN (ans[OptionalQueries[CHOOSE i \in 1..4 :
                Aborts(OptionalQueries[i], ans[OptionalQueries[i]])]]).exc
    ELSE "none"

\* Mutant of Sentinel: the I/O counters left out of the fallback dict.
SentinelWithoutIo(pid) ==
    [pid |-> pid, name |-> "[Process not available]", status |-> "unknown",
     username |-> "unknown", cpu_percent |-> 0, memory_percent |-> 0, created_time |-> 0,
     cmdline |-> "", exe |-> "", memory_rss |-> 0, memory_vms |-> 0]

\* The dict returned when the process cannot be queried.
Sentinel(pid) ==
    [pid |-> pid, name |-> "[Process not available]", status |-> "unknown",
     username |-> "unknown", cpu_percent |-> 0, memory_percent |-> 0, created_time |-> 0,
     cmdline |-> "", exe |-> "", memory_rss |-> 0, memory_vms |-> 0,
     io_read_bytes |-> 0, io_write_bytes |-> 0]

\* Mutant of InfoDict: the four optional queries share one try/except, so one
\* failure puts every optional field on its fallback.
InfoDictOneTry(pid, ans) ==
    LET anyFailed == \E i \in 1..4 : Raises(ans[OptionalQueries[i]]) IN
    [pid |-> pid,
     name |-> ans["name"].value,
     status |-> ans["status"].value,
     username |-> ans["username"].value,
     cpu_percent |-> ans["cpu_percent"].value,
     memory_percent |-> ans["memory_percent"].value,
     created_time |-> ans["create_time"].value,
     cmdline |-> IF anyFailed THEN "[Access Denied]" ELSE Join(ans["cmdline"].value),
     exe |-> IF anyFailed THEN "[Access Denied]" ELSE ans["exe"].value,
     memory_rss |-> IF anyFailed THEN 0 ELSE ans["memory_info"].value.rss,
     memory_vms |-> IF anyFailed THEN 0 ELSE ans["memory_info"].value.vms,
     io_read_bytes |-> IF anyFailed THEN 0 ELSE ans["io_counters"].value.read_bytes,
     io_write_bytes |-> IF anyFailed THEN 0 ELSE ans["io_counters"].value.write_bytes]

\* The info dict built on the path where nothing leaves the try body: each
\* optional field from its own try/except.
InfoDict(pid, ans) ==
    [pid |-> pid,
     name |-> ans["name"].value,
     status |-> ans["status"].value,
     username |-> ans["username"].value,
     cpu_percent |-> ans["cpu_percent"].value,
     memory_percent |-> ans["memory_percent"].value,
     created_time |-> ans["create_time"].value,
     cmdline |-> IF Raises(ans["cmdline"]) THEN "[Access Denied]" ELSE Join(ans["cmdline"].value),
     exe |-> IF Raises(ans["exe"]) THEN "[Access Denied]" ELSE ans["exe"].value,
     memory_rss |-> IF Raises(ans["memory_info"]) THEN 0 ELSE ans["memory_info"].value.rss,
     memory_vms |-> IF Raises(ans["memory_info"]) THEN 0 ELSE ans["memory_info"].value.vms,
     io_read_bytes |-> IF Raises(ans["io_counters"]) THEN 0 ELSE ans["io_counters"].value.read_bytes,
     io_write_bytes |-> IF Raises(ans["io_counters"]) THEN 0 ELSE ans["io_counters"].value.write_bytes]

\* def get_process_info(pid)
GetProcessInfoResult(pid, ans) ==
    LET e == Escaping(ans) IN
    IF e = "none" THEN [raised |-> FALSE, value |-> InfoDict(pid, ans)]
    ELSE IF Catches(InfoCaught, e) THEN [raised |-> FALSE, value |-> Sentinel(pid)]
    ELSE [raised |-> TRUE, value |-> e]

\* The caller calls get_process_info(pid); the provider answers ans.
GetProcessInfo ==
    /\ pc = "idle"
    /\ \E pid \in Pids, ans \in InfoAnswers :
        LET r == GetProcessInfoResult(pid, ans) IN
        /\ call' = [fn |-> "get_process_info", pid |-> pid]
        /\ prov' = ans
        /\ ret' = r
        /\ pc' = IF r.raised THEN "raised" ELSE "info_done"
    /\ UNCHANGED <<listVars, signals>>
    /\ UNCHANGED frontVars

\* -------------------------------------------------------- get_system_info

\* A query that answered None.
Null == [kind |-> "null"]

\* The queries of get_system_info, in the order the code makes them.
SystemQueries ==
    <<"cpu_percent", "virtual_memory", "swap_memory", "disk_usage",
      "sensors_temperatures", "boot_time", "cpu_count", "cpu_count_physical">>

\* What psutil.sensors_temperatures() can answer: no sensor, a sensor without
\* readings, a reading with a current value, a reading without one. A sensor
\* map is the sequence of its sensors' reading lists.
TemperatureMaps ==
    {<<>>, <<<<>>>>, <<<<[current |-> "45.0"]>>>>, <<<<[label |-> "core"]>>>>,
     <<<<[current |-> "45.0"], [current |-> "60.0"]>>, <<[current |-> "30.0"]>>>>}

\* What each query can answer; any of them can fail with a platform error.
SystemAnswersOf(q) ==
    CASE q = "cpu_percent" -> {Ok(12), Raise(OSError)}
      [] q = "virtual_memory" ->
            {Ok([total |-> 16000, available |-> 9000, percent |-> 44, used |-> 7000]),
             Raise(OSError)}
      [] q = "swap_memory" -> {Ok([total |-> 2000, used |-> 500, percent |-> 25]), Raise(OSError)}
      [] q = "disk_usage" -> {Ok([total |-> 50000, used |-> 20000, percent |-> 40]), Raise(OSError)}
      [] q = "sensors_temperatures" -> {Ok(t) : t \in TemperatureMaps} \cup {Raise(OSError)}
      [] q = "boot_time" -> {Ok(1000), Raise(OSError)}
      [] q = "cpu_count" -> {Ok(4), Raise(OSError)}
      [] q = "cpu_count_physical" -> {Ok(2), Ok(0), Null, Raise(OSError)}

\* The platform: os.name, the SYSTEMDRIVE variable, whether psutil has
\* sensors_temperatures, and the clock.
Platforms ==
    [os_name : {"posix", "nt"}, systemdrive : {"None", "D:"}, has_sensors : BOOLEAN, now : {1500}]

\* Mutant of SystemFatal: psutil.disk_usage called without its own try/except.
SystemFatalWithDisk ==
    {"cpu_percent", "virtual_memory", "swap_memory", "disk_usage", "boot_time",
     "cpu_count", "cpu_count_physical"}

\* The queries whose exception no inner try catches: it leaves the try body.
SystemFatal == {"cpu_percent", "virtual_memory", "swap_memory", "boot_time", "cpu_count", "cpu_count_physical"}

\* The queries made before the i-th one.
SystemBefore(i) == {SystemQueries[j] : j \in 1..(i - 1)}

\* A run of get_system_info against the provider: each query is made unless
\* an earlier exception left the try body (or, for the sensors, unless psutil
\* lacks the function).
SystemAnswers ==
    {a \in [cpu_percent : SystemAnswersOf("cpu_percent"),
            virtual_memory : SystemAnswersOf("virtual_memory") \cup {NotAsked},
            swap_memory : SystemAnswersOf("swap_memory") \cup {NotAsked},
            disk_usage : SystemAnswersOf("disk_usage") \cup {NotAsked},
            sensors_temperatures : SystemAnswersOf("sensors_temperatures") \cup {NotAsked},
            boot_time : SystemAnswersOf("boot_time") \cup {NotAsked},
            cpu_count : SystemAnswersOf("cpu_count") \cup {NotAsked},
            cpu_count_physical : SystemAnswersOf("cpu_count_physical") \cup {NotAsked},
            platform : Platforms] :
        \A i \in 2..8 :
            LET q == SystemQueries[i]
                aborted == \E p \in SystemBefore(i) \cap SystemFatal : Raises(a[p])
            IN (a[q] = NotAsked) <=>
                    (aborted \/ (q = "sensors_temperatures" /\ ~a.platform.has_sensors))}

\* The disk path: the system drive on Windows ("C:" when SYSTEMDRIVE is unset),
\* the root elsewhere.
DiskPath(platform) ==
    IF platform.os_name = "nt"
    THEN (IF platform.systemdrive = "None" THEN "C:" ELSE platform.systemdrive)
    ELSE "/"

\* disk: the provider's usage, or the zeroed object of the inner except.
DiskOf(a) ==
    IF Raises(a.disk_usage)
    THEN [total |-> 0, used |-> 0, percent |-> 0]
    ELSE a.disk_usage.value

\* temp_value: None unless the function exists, does not raise, and the first
\* sensor's first reading has a current value.
TempValue(a) ==
    IF ~a.platform.has_sensors \/ Raises(a.sensors_temperatures) THEN None
    ELSE LET temps == a.sensors_temperatures.value IN
         IF Len(temps) = 0 THEN None
         ELSE IF Len(temps[1]) = 0 THEN None
         ELSE IF "current" \in DOMAIN temps[1][1] THEN temps[1][1].current
         ELSE None

\* cpu_count(logical=False) or 1
CountPhysical(a) ==
    IF a.cpu_count_physical.kind = "null" THEN 1
    ELSE IF a.cpu_count_physical.value = 0 THEN 1
    ELSE a.cpu_count_physical.value

\* The dict returned from the try body.
Snapshot(a) ==
    [cpu |-> [percent |-> a.cpu_percent.value,
              count_logical |-> a.cpu_count.value,
              count_physical |-> CountPhysical(a)],
     memory |-> [total |-> a.virtual_memory.value.total,
                 available |-> a.virtual_memory.value.available,
                 percent |-> a.virtual_memory.value.percent,
                 used |-> a.virtual_memory.value.used],
     swap |-> [total |-> a.swap_memory.value.total,
               used |-> a.swap_memory.value.used,
               percent |-> a.swap_memory.value.percent],
     disk |-> [total |-> DiskOf(a).total,
               used |-> DiskOf(a).used,
               percent |-> DiskOf(a).percent,
               path |-> DiskPath(a.platform)],
     temperature |-> TempValue(a),
     boot_time |-> a.boot_time.value,
     uptime_seconds |-> a.platform.now - a.boot_time.value]

\* Mutant of FallbackSnapshot: the disk path left out of the fallback dict.
FallbackSnapshotWithoutPath ==
    [cpu |-> [percent |-> 0, count_logical |-> 0, count_physical |-> 0],
     memory |-> [total |-> 0, available |-> 0, percent |-> 0, used |-> 0],
     swap |-> [total |-> 0, used |-> 0, percent |-> 0],
     disk |-> [total |-> 0, used |-> 0, percent |-> 0],
     temperature |-> None,
     boot_time |-> 0,
     uptime_seconds |-> 0]

\* The dict returned from the outer except.
FallbackSnapshot ==
    [cpu |-> [percent |-> 0, count_logical |-> 0, count_physical |-> 0],
     memory |-> [total |-> 0, available |-> 0, percent |-> 0, used |-> 0],
     swap |-> [total |-> 0, used |-> 0, percent |-> 0],
     disk |-> [total |-> 0, used |-> 0, percent |-> 0, path |-> "/"],
     temperature |-> None,
     boot_time |-> 0,
     uptime_seconds |-> 0]

\* The outer clause of get_system_info: except Exception.
SystemCaught == {"Exception"}

\* The exception that leaves the try body of get_system_info, "none" if none.
SystemEscaping(a) ==
    IF \E q \in SystemFatal : Raises(a[q])
    THEN (a[CHOOSE q \in SystemFatal : Raises(a[q])]).exc
    ELSE "none"

\* def get_system_info()
GetSystemInfoResult(a) ==
    LET e == SystemEscaping(a) IN
    IF e = "none" THEN [raised |-> FALSE, value |-> Snapshot(a)]
    ELSE IF Catches(SystemCaught, e) THEN [raised |-> FALSE, value |-> FallbackSnapshot]
    ELSE [raised |-> TRUE, value |-> e]

\* The caller calls get_system_info(); the provider answers a.
GetSystemInfo ==
    /\ pc = "idle"
    /\ \E a \in SystemAnswers :
        LET r == GetSystemInfoResult(a) IN
        /\ call' = [fn |-> "get_system_info"]
        /\ prov' = a
        /\ ret' = r
        /\ pc' = IF r.raised THEN "raised" ELSE "system_done"
    /\ UNCHANGED <<listVars, signals>>
    /\ UNCHANGED frontVars

\* ----------------------------------------------------------- kill_process

\* What psutil.Process(pid) and the signal call can raise in kill_process.
KillErrors == ProcessErrors \cup {OSError}

\* str(e) of an exception that is none of psutil's three.
Message(e) == "[Errno 1] Operation not permitted"

\* The provider's answers to one kill_process call: the handle, then the
\* signal unless the handle raised.
KillAnswers ==
    {[Process |-> Raise(e), signal |-> NotAsked] : e \in KillErrors}
        \cup {[Process |-> Ok("handle"), signal |-> Ok("sent")]}
        \cup {[Process |-> Ok("handle"), signal |-> Raise(e)] : e \in KillErrors}

\* Mutant of KillSignals: proc.kill() whatever force says.
KillSignalsAlwaysKill(pid, force, a) ==
    IF Raises(a.Process) THEN <<>>
    ELSE <<[pid |-> pid, signal |-> "kill"]>>

\* The signals kill_process asks the handle to send: proc.kill() with force,
\* proc.terminate() without, none when the handle could not be opened.
KillSignals(pid, force, a) ==
    IF Raises(a.Process) THEN <<>>
    ELSE IF force THEN <<[pid |-> pid, signal |-> "kill"]>>
    ELSE <<[pid |-> pid, signal |-> "terminate"]>>

\* The except chain of kill_process: the first clause whose class matches.
KillFailure(e) ==
    IF IsInstance(e, NoSuchProcess)
    THEN [raised |-> FALSE, value |-> [success |-> FALSE, error |-> "Process does not exist"]]
    ELSE IF IsInstance(e, AccessDenied)
    THEN [raised |-> FALSE,
          value |-> [success |-> FALSE, error |-> "Access denied (try running as administrator)"]]
    ELSE IF IsInstance(e, ZombieProcess)
    THEN [raised |-> FALSE, value |-> [success |-> FALSE, error |-> "Process is a zombie process"]]
    ELSE IF IsInstance(e, "Exception")
    THEN [raised |-> FALSE, value |-> [success |-> FALSE, error |-> Message(e)]]
    ELSE [raised |-> TRUE, value |-> e]

\* def kill_process(pid, force)
KillProcessResult(a) ==
    IF Raises(a.Process) THEN KillFailure(a.Process.exc)
    ELSE IF Raises(a.signal) THEN KillFailure(a.signal.exc)
    ELSE [raised |-> FALSE, value |-> [success |-> TRUE, error |-> None]]

\* The caller calls kill_process(pid, force); the provider answers a.
KillProcess ==
    /\ pc = "idle"
    /\ \E pid \in Pids, force \in BOOLEAN, a \in KillAnswers :
        LET r == KillProcessResult(a) IN
        /\ call' = [fn |-> "kill_process", pid |-> pid, force |-> force]
        /\ prov' = a
        /\ signals' = KillSignals(pid, force, a)
        /\ ret' = r
        /\ pc' = IF r.raised THEN "raised" ELSE "kill_done"
    /\ UNCHANGED listVars
    /\ UNCHANGED frontVars

\* The caller takes the return value (or the exception) and is idle again.
Return ==
    /\ pc \in {"list_done", "info_done", "system_done", "kill_done", "raised"}
    /\ pc' = "idle"
    /\ sort_by' = "cpu"
    /\ pids' = <<>>
    /\ idx' = 1
    /\ processes' = <<>>
    /\ result' = <<>>
    /\ cpu_calls' = [p \in Pids |-> <<>>]
    /\ failed' = {}
    /\ call' = NoCall
    /\ prov' = NoAnswer
    /\ signals' = <<>>
    /\ ret' = NoReturn
    /\ UNCHANGED frontVars

Next ==
    \/ CallGetProcessList
    \/ Phase1Step
    \/ Sleep
    \/ Phase2Step
    \/ SortAndReturn
    \/ GetProcessInfo
    \/ GetSystemInfo
    \/ KillProcess
    \/ Return

Spec == Init /\ [][Next]_vars

\* ------------------------------------------------------------------ tui.py

\* Number of processes the platform runs while the application is open.
MaxShown == 2

\* Their identifiers.
ShownPids == {10 * i : i \in 1..MaxShown}

\* psutil.Process(pid) for a pid that is not positive.
ValueError == "ValueError"

\* The first-pass answers of the processes the application lists: the handle
\* of a running process is primed (a process drops out of a list in the second
\* pass).
FrontFirstAnswers == {a \in Phase1Answers : a.ok}

\* Their second-pass answers: process "a" (1 % cpu, 5 % memory), process "B"
\* (50 % cpu, 0 % memory), or the process is gone before proc.name().
FrontSecondAnswers ==
    {a \in Phase2Answers :
        IF a.ok
        THEN \/ (a.name = <<97>> /\ a.cpu_percent = 1 /\ a.memory_percent = 5)
             \/ (a.name = <<66>> /\ a.cpu_percent = 50 /\ a.memory_percent = 0)
        ELSE a.at = "name" /\ a.exc = NoSuchProcess /\ Catches(ListCaught, a.exc)}

\* While the application is open each process keeps its figures: pids 10, 30,
\* ... are instances of "a", pids 20, 40, ... of "B". What changes from one
\* refresh to the next is whether a process answers at all.
ShownAnswers(pid) ==
    {a \in FrontSecondAnswers :
        a.ok => a.cpu_percent = (IF (pid \div 10) % 2 = 1 THEN 1 ELSE 50)}

\* Their get_process_info answers: every query answers, or the process is gone
\* before psutil.Process(pid).
FrontInfoAnswers ==
    {a \in InfoAnswers :
        IF Raises(a["Process"]) THEN a["Process"].exc = NoSuchProcess
        ELSE /\ \A q \in InfoQueries : a[q].kind = "ok"
             /\ a["name"].value = "bash"
             /\ a["status"].value = "running"
             /\ a["cpu_percent"].value = 0
             /\ a["cmdline"].value = <<>>}

\* Their kill_process answers; the handle of a pid that is not positive
\* cannot be opened.
FrontKillAnswers(pid) ==
    IF pid > 0 THEN KillAnswers
    ELSE {[Process |-> Raise(ValueError), signal |-> NotAsked]}

\* The first pass of get_process_list over the enumeration: the handles kept.
RECURSIVE FirstPass(_, _)
FirstPass(enum, a) ==
    IF enum = <<>> THEN <<>>
    ELSE IF a[Head(enum)].ok THEN <<Head(enum)>> \o FirstPass(Tail(enum), a)
    ELSE FirstPass(Tail(enum), a)

\* The second pass over the kept handles: the records collected.
RECURSIVE SecondPass(_, _)
SecondPass(handles, a) ==
    IF handles = <<>> THEN <<>>
    ELSE IF a[Head(handles)].ok
    THEN <<ListInfo(Head(handles), a[Head(handles)])>> \o SecondPass(Tail(handles), a)
    ELSE SecondPass(Tail(handles), a)

\* The collector variables the application's handlers leave alone.
collectorRest == <<pc, pids, idx, result, cpu_calls, failed, call, prov, signals, ret>>

\* A collector call a handler makes.
CallOf(fn, pid, force) == [fn |-> fn, pid |-> pid, force |-> force]

\* The log of a handler that starts now.
Handler(name) ==
    [name |-> name, selected_before |-> selected_pid, calls |-> <<>>, result |-> NoResult,
     notify |-> NoNotice]

\* sort_type = button_id.replace("sort_", "")
SortType(button_id) ==
    CASE button_id = "sort_cpu" -> "cpu"
      [] button_id = "sort_memory" -> "memory"
      [] button_id = "sort_name" -> "name"
      [] button_id = "sort_pid" -> "pid"

\* The ids of the sort buttons ProcessTable composes.
SortButtons == {"sort_cpu", "sort_memory", "sort_name", "sort_pid"}

\* any(proc["pid"] == pid for proc in procs)
PidExists(procs, pid) == \E i \in 1..Len(procs) : procs[i].pid = pid

\* Mutant of SelectionLost: the selection is given up for an empty list only.
SelectionLostInEmptyList(procs, pid) == procs = <<>> /\ pid > 0

\* Mutant of SelectionLost: the `not` of the test is dropped.
SelectionLostWithoutNot(procs, pid) == PidExists(procs, pid) /\ pid > 0

\* if not pid_exists and self.selected_pid > 0
SelectionLost(procs, pid) == ~PidExists(procs, pid) /\ pid > 0

\* The name of the first record of procs with that pid, "" if there is none.
ProcessName(procs, pid) ==
    IF PidExists(procs, pid)
    THEN procs[CHOOSE i \in 1..Len(procs) :
                    /\ procs[i].pid = pid
                    /\ \A j \in 1..(i - 1) : procs[j].pid # pid].name
    ELSE <<>>

\* Panel(table, title=f"Process Detail - {info['name']} ({info['pid']})")
DetailPanel(info) == [pid |-> info.pid, name |-> info.name, body |-> "table"]

\* Mutant of UpdateProcessDetailCalls: no early return for pid <= 0.
UpdateProcessDetailCallsAlways(pid) == <<CallOf("get_process_info", pid, FALSE)>>

\* The collector calls of update_process_detail(pid): none when pid <= 0 (the
\* early return), get_process_info(pid) otherwise.
UpdateProcessDetailCalls(pid) ==
    IF pid <= 0 THEN <<>> ELSE <<CallOf("get_process_info", pid, FALSE)>>

\* update_process_detail(pid), called by the handler whose log is `log`.
UpdateProcessDetail(pid, log) ==
    /\ detail_pid' = pid
    /\ IF pid <= 0
       THEN detail_content' = Placeholder
       ELSE \E ans \in FrontInfoAnswers :
                /\ pid \in gone => Raises(ans["Process"])
                /\ detail_content' = DetailPanel(GetProcessInfoResult(pid, ans).value)
    /\ event' = [log EXCEPT !.calls = @ \o UpdateProcessDetailCalls(pid)]

\* Mutant of EnterProcessList: get_process_list() is called without sort_by.
EnterProcessListDefaultKey(who, field, log) ==
    /\ \E a \in [ShownPids \ gone -> FrontFirstAnswers] :
        processes' = FirstPass(SortedPids(ShownPids \ gone), a)
    /\ sort_by' = "cpu"
    /\ busy' = who
    /\ event' = [log EXCEPT !.calls = Append(@, CallOf("get_process_list", NoPid, FALSE))]

\* update_process_list as far as time.sleep(0.1) inside
\* get_process_list(sort_by=field): psutil.pids() lists the processes that have
\* not exited and the first pass is done. The handler `who` holds the event
\* loop while it sleeps.
EnterProcessList(who, field, log) ==
    /\ \E a \in [ShownPids \ gone -> FrontFirstAnswers] :
        processes' = FirstPass(SortedPids(ShownPids \ gone), a)
    /\ sort_by' = field
    /\ busy' = who
    /\ event' = [log EXCEPT !.calls = Append(@, CallOf("get_process_list", NoPid, FALSE))]

\* The 2-second timer of ProcessTable fires: update_process_list starts.
ProcessListTick ==
    /\ busy = "none"
    /\ EnterProcessList("tick", sort_field, Handler("tick"))
    /\ UNCHANGED <<table_processes, sort_field, selected_pid, detail_pid, detail_content,
                   dialog, gone, stdout>>
    /\ UNCHANGED collectorRest

\* ProcessTable.on_button_pressed: a sort button sets sort_field and calls
\* update_process_list.
SortButtonPressed ==
    /\ busy = "none"
    /\ ~dialog.open
    /\ \E button_id \in SortButtons :
        /\ sort_field' = SortType(button_id)
        /\ EnterProcessList("sort", SortType(button_id), Handler("sort"))
    /\ UNCHANGED <<table_processes, selected_pid, detail_pid, detail_content, dialog, gone, stdout>>
    /\ UNCHANGED collectorRest

\* The rest of update_process_list: the sleep ends, the second pass and the
\* sort give the new list, the selection is reconciled with it. The kill
\* workflow then clears the detail view.
ProcessListReturns ==
    /\ busy # "none"
    /\ \E a \in [{processes[i] : i \in 1..Len(processes)} -> FrontSecondAnswers] :
        /\ \A i \in 1..Len(processes) : a[processes[i]] \in ShownAnswers(processes[i])
        /\ \A i \in 1..Len(processes) : processes[i] \in gone => ~a[processes[i]].ok
        /\ LET new == SortResult(sort_by, SecondPass(processes, a))
               clear == SelectionLost(new, selected_pid)
               cleared == clear \/ busy = "kill"
           IN /\ table_processes' = new
              /\ selected_pid' = IF clear THEN NoPid ELSE selected_pid
              /\ detail_pid' = IF cleared THEN NoPid ELSE detail_pid
              /\ detail_content' = IF cleared THEN Placeholder ELSE detail_content
              /\ event' = [event EXCEPT !.calls =
                            @ \o (IF clear THEN UpdateProcessDetailCalls(NoPid) ELSE <<>>)
                              \o (IF busy = "kill" THEN UpdateProcessDetailCalls(NoPid) ELSE <<>>)]
    /\ busy' = "none"
    /\ processes' = <<>>
    /\ sort_by' = "cpu"
    /\ UNCHANGED <<sort_field, dialog, gone, stdout>>
    /\ UNCHANGED collectorRest

\* Mutant of RowSelected: the handler shows the row's process in the detail
\* view without assigning self.selected_pid.
RowSelectedDetailOnly ==
    /\ busy = "none"
    /\ ~dialog.open
    /\ \E i \in 1..Len(table_processes) :
        UpdateProcessDetail(table_processes[i].pid, Handler("row_selected"))
    /\ UNCHANGED <<table_processes, sort_field, selected_pid, dialog, busy, gone, stdout>>
    /\ UNCHANGED <<sort_by, processes>>
    /\ UNCHANGED collectorRest

\* ProcessTable.on_data_table_row_selected: a row of the table is selected.
RowSelected ==
    /\ busy = "none"
    /\ ~dialog.open
    /\ \E i \in 1..Len(table_processes) :
        /\ selected_pid' = table_processes[i].pid
        /\ UpdateProcessDetail(table_processes[i].pid, Handler("row_selected"))
    /\ UNCHANGED <<table_processes, sort_field, dialog, busy, gone, stdout>>
    /\ UNCHANGED <<sort_by, processes>>
    /\ UNCHANGED collectorRest

\* ProcessDetail.on_button_pressed, button refresh_detail.
RefreshDetailPressed ==
    /\ busy = "none"
    /\ ~dialog.open
    /\ UpdateProcessDetail(detail_pid, Handler("refresh_detail"))
    /\ UNCHANGED <<table_processes, sort_field, selected_pid, dialog, busy, gone, stdout>>
    /\ UNCHANGED <<sort_by, processes>>
    /\ UNCHANGED collectorRest

\* Mutant of HasPid: the kill button does not test self.pid.
HasPidAlways(pid) == TRUE

\* if self.pid > 0
HasPid(pid) == pid > 0

\* ProcessDetail.on_button_pressed, button kill_process: with a pid the worker
\* looks the process name up and pushes the confirmation dialog.
KillButtonPressed ==
    /\ busy = "none"
    /\ ~dialog.open
    /\ dialog' = IF HasPid(detail_pid)
                 THEN [open |-> TRUE, pid |-> detail_pid,
                       process_name |-> ProcessName(table_processes, detail_pid)]
                 ELSE dialog
    /\ event' = Handler("kill_process")
    /\ UNCHANGED <<table_processes, sort_field, selected_pid, detail_pid, detail_content,
                   busy, gone, stdout>>
    /\ UNCHANGED <<sort_by, processes>>
    /\ UNCHANGED collectorRest

\* KillConfirmDialog.on_button_pressed, button cancel: dismiss(False); the
\* worker finds a result that is no tuple and ends.
DialogCancel ==
    /\ busy = "none"
    /\ dialog.open
    /\ dialog' = NoDialog
    /\ event' = Handler("cancel")
    /\ UNCHANGED <<table_processes, sort_field, selected_pid, detail_pid, detail_content,
                   busy, gone, stdout>>
    /\ UNCHANGED <<sort_by, processes>>
    /\ UNCHANGED collectorRest

\* f"Process {self.pid} terminated", title="Success"
SuccessNotice(pid) == [title |-> "Success", message |-> "Process " \o ToString(pid) \o " terminated"]

\* Mutant of ErrorNotice: the notification leaves the reason out.
ErrorNoticeWithoutReason(error) == [title |-> "Error", message |-> "Failed to terminate process"]

\* f"Failed to terminate process: {result['error']}", title="Error"
ErrorNotice(error) == [title |-> "Error", message |-> "Failed to terminate process: " \o error]

\* KillConfirmDialog.on_button_pressed, buttons terminate and force_kill:
\* dismiss(("terminate", force)); the worker calls kill_process(self.pid,
\* force) and, on success, notifies and calls update_process_list.
DialogTerminate ==
    /\ busy = "none"
    /\ dialog.open
    /\ \E force \in BOOLEAN, a \in FrontKillAnswers(detail_pid) :
        /\ detail_pid \in gone => (Raises(a.Process) /\ a.Process.exc = NoSuchProcess)
        /\ LET r == KillProcessResult(a).value
               log == [Handler(IF force THEN "force_kill" ELSE "terminate") EXCEPT
                        !.calls = <<CallOf("kill_process", detail_pid, force)>>,
                        !.result = r]
           IN IF r.success
              THEN EnterProcessList("kill", sort_field,
                                    [log EXCEPT !.notify = SuccessNotice(detail_pid)])
              ELSE /\ event' = [log EXCEPT !.notify = ErrorNotice(r.error)]
                   /\ UNCHANGED <<busy, sort_by, processes>>
    /\ dialog' = NoDialog
    /\ UNCHANGED <<table_processes, sort_field, selected_pid, detail_pid, detail_content,
                   gone, stdout>>
    /\ UNCHANGED collectorRest

\* The 1-second timer of SystemInfoPanel fires: update_system_info.
SystemInfoTick ==
    /\ busy = "none"
    /\ event' = [Handler("system_info") EXCEPT
                    !.calls = <<CallOf("get_system_info", NoPid, FALSE)>>]
    /\ UNCHANGED <<table_processes, sort_field, selected_pid, detail_pid, detail_content,
                   dialog, busy, gone, stdout>>
    /\ UNCHANGED <<sort_by, processes>>
    /\ UNCHANGED collectorRest

\* The platform: a process exits for good and its pid is not listed again.
\* One such exit is followed; any other process leaves and rejoins the lists
\* through the answers of the second pass.
ProcessExits ==
    /\ gone = {}
    /\ \E p \in ShownPids : gone' = {p}
    /\ UNCHANGED <<table_processes, sort_field, selected_pid, detail_pid, detail_content,
                   dialog, busy, event, stdout>>
    /\ UNCHANGED <<sort_by, processes>>
    /\ UNCHANGED collectorRest

NextTui ==
    \/ ProcessListTick
    \/ SortButtonPressed
    \/ ProcessListReturns
    \/ RowSelected
    \/ RefreshDetailPressed
    \/ KillButtonPressed
    \/ DialogCancel
    \/ DialogTerminate
    \/ SystemInfoTick
    \/ ProcessExits

SpecTui == Init /\ [][NextTui]_vars

\* set_interval(2.0, self.update_process_list): the timer keeps firing and its
\* callback runs when the event loop stays free; time.sleep(0.1) ends.
TimerFairness == WF_vars(ProcessListTick) /\ WF_vars(ProcessListReturns)

SpecTuiFair == SpecTui /\ TimerFairness

\* ------------------------------------------------------------------ cli.py

\* Largest --count given on the command line.
MaxCount == 3

\* typer.Option(10, "--count", "-n")
DefaultCount == 10

\* The --count values of a run: the default when absent, or -1, 0, 1, ...
CountOptions == {DefaultCount} \cup (-1..MaxCount)

\* The --sort values of a run ("cpu" when absent).
SortOptions == SortKeys

\* One printed line.
Line(kind, count, key, pid, cpu, mem, name) ==
    [kind |-> kind, count |-> count, sort_by |-> key, pid |-> pid, cpu_percent |-> cpu,
     memory_percent |-> mem, name |-> name]

\* Panel.fit(f"[bold cyan]Top {count} processes sorted by {sort_by}[/]")
Banner(count, key) == Line("Top N processes sorted by", count, key, NoPid, 0, 0, <<>>)

\* f"{'PID':>7} {'CPU%':>7} {'MEM%':>7} {'NAME':<30}" and the rule under it.
Header == <<Line("PID CPU% MEM% NAME", 0, "", NoPid, 0, 0, <<>>),
            Line("rule", 0, "", NoPid, 0, 0, <<>>)>>

\* The line of one process: pid, cpu_percent, memory_percent, name.
Row(proc) == Line("process", 0, "", proc.pid, proc.cpu_percent, proc.memory_percent, proc.name)

\* Mutant of Slice: the last count elements, s[-count:].
SliceFromEnd(s, count) ==
    IF count <= 0 THEN s
    ELSE SubSeq(s, IF Len(s) > count THEN Len(s) - count + 1 ELSE 1, Len(s))

\* s[:count]: the first count elements; a negative count counts from the end.
Slice(s, count) ==
    IF count >= 0 THEN SubSeq(s, 1, IF count < Len(s) THEN count ELSE Len(s))
    ELSE SubSeq(s, 1, IF Len(s) + count > 0 THEN Len(s) + count ELSE 0)

\* The list command: the banner, get_process_list(sort_by=sort_by)[:count],
\* the header and one line per record kept.
ListCommand ==
    /\ pc = "idle"
    /\ \E key \in SortOptions, count \in CountOptions, enum \in Enumerations :
        \E a1 \in [{enum[i] : i \in 1..Len(enum)} -> FrontFirstAnswers] :
            LET handles == FirstPass(enum, a1) IN
            \E a2 \in [{handles[i] : i \in 1..Len(handles)} -> FrontSecondAnswers] :
                LET all == SortResult(key, SecondPass(handles, a2))
                    shown == Slice(all, count)
                IN /\ call' = [fn |-> "list", sort_by |-> key, count |-> count]
                   /\ ret' = [raised |-> FALSE, value |-> all]
                   /\ stdout' = <<Banner(count, key)>> \o Header
                                    \o [i \in 1..Len(shown) |-> Row(shown[i])]
    /\ pc' = "cli_done"
    /\ UNCHANGED <<listVars, prov, signals>>
    /\ UNCHANGED <<table_processes, sort_field, selected_pid, detail_pid, detail_content,
                   dialog, busy, event, gone>>

\* The command returns and the process exits with status 0.
ListCommandExits ==
    /\ pc = "cli_done"
    /\ pc' = "idle"
    /\ call' = NoCall
    /\ ret' = NoReturn
    /\ stdout' = <<>>
    /\ UNCHANGED <<listVars, prov, signals>>
    /\ UNCHANGED <<table_processes, sort_field, selected_pid, detail_pid, detail_content,
                   dialog, busy, event, gone>>

NextCli ==
    \/ ListCommand
    \/ ListCommandExits

SpecCli == Init /\ [][NextCli]_vars

\* ------------------------------------------------------------------ claims

\* get_process_list has returned.
ListDone == pc = "list_done"

\* The pids of a list of records, in order.
PidsOf(v) == [i \in 1..Len(v) |-> v[i].pid]

\* The members of a sequence.
Range(v) == {v[i] : i \in 1..Len(v)}

\* The position of pid p in the enumeration psutil.pids() returned.
EnumPos(p) == CHOOSE i \in 1..Len(pids) : pids[i] = p

\* Two records in the order the sort key of the call asks for.
InOrder(key, a, b) ==
    CASE key = "pid" -> a.pid <= b.pid
      [] key = "name" -> ~StrLess(Lower(b.name), Lower(a.name))
      [] key = "cpu" -> a.cpu_percent >= b.cpu_percent
      [] key = "memory" -> a.memory_percent >= b.memory_percent

\* Two records with equal sort keys.
SameKey(key, a, b) ==
    CASE key = "pid" -> a.pid = b.pid
      [] key = "name" -> Lower(a.name) = Lower(b.name)
      [] key = "cpu" -> a.cpu_percent = b.cpu_percent
      [] key = "memory" -> a.memory_percent = b.memory_percent

\* The collected records of the scenario: pids 10, 20, 30 with cpu 1, 50, 25.
ScenarioCollected ==
    /\ call.sort_by = "cpu"
    /\ PidsOf(result) = <<10, 20, 30>>
    /\ [i \in 1..Len(result) |-> result[i].cpu_percent] = <<1, 50, 25>>

\* C1: whatever records were collected and whichever of the four sort keys was
\* asked for, the list get_process_list returns is fully ordered: by pid
\* non-decreasing, by lower-cased name non-decreasing, by cpu_percent
\* non-increasing, by memory_percent non-increasing; and cpu_percent 1, 50, 25
\* for pids 10, 20, 30 sorted by cpu comes back in pid order 20, 30, 10.
C1_ReturnedListIsOrdered ==
    ListDone =>
        /\ \A i, j \in 1..Len(ret.value) :
                i < j => InOrder(call.sort_by, ret.value[i], ret.value[j])
        /\ ScenarioCollected => PidsOf(ret.value) = <<20, 30, 10>>

\* C1 witness: the scenario's call has returned.
C1_Witness ==
    /\ ListDone
    /\ ScenarioCollected
    /\ PidsOf(ret.value) = <<20, 30, 10>>

\* C2: the sort of get_process_list is a permutation (the returned list has
\* every collected record exactly once and nothing else) and is stable for
\* all four keys: records with equal sort keys come back in the order of the
\* platform's pid enumeration.
C2_SortIsStablePermutation ==
    ListDone =>
        /\ Len(ret.value) = Len(result)
        /\ \A r \in Range(result) :
                Cardinality({i \in 1..Len(ret.value) : ret.value[i] = r}) = 1
        /\ \A i, j \in 1..Len(ret.value) :
                (i < j /\ SameKey(call.sort_by, ret.value[i], ret.value[j]))
                    => EnumPos(ret.value[i].pid) < EnumPos(ret.value[j].pid)

\* C2 witness: a descending sort that moved records and met two equal keys.
C2_Witness ==
    /\ ListDone
    /\ call.sort_by \in {"cpu", "memory"}
    /\ Len(ret.value) = 3
    /\ ret.value # result
    /\ \E i, j \in 1..3 : i < j /\ SameKey(call.sort_by, ret.value[i], ret.value[j])

\* C3: get_process_list never raises on no-such-process, access-denied or
\* zombie failures; it returns exactly one record for each enumerated pid whose
\* queries all succeeded in both passes, no record for any other pid, and the
\* empty list for an empty enumeration.
C3_ExactlyTheAnsweringPids ==
    /\ (call.fn = "get_process_list" => ~ret.raised /\ pc # "raised")
    /\ ListDone =>
        /\ Range(PidsOf(ret.value)) = Range(pids) \ failed
        /\ Len(ret.value) = Cardinality(Range(pids) \ failed)
        /\ (pids = <<>> => ret.value = <<>>)

\* C3 witness: one pid failed in the first pass, one in the second, and a
\* third one is reported.
C3_Witness ==
    /\ ListDone
    /\ \E p \in failed : p \notin Range(processes)
    /\ \E p \in failed : p \in Range(processes)
    /\ Len(ret.value) >= 1

\* get_process_info was called (and has returned or raised).
InfoCall == call.fn = "get_process_info"

\* An optional query failed because of permission, or because the platform
\* does not support it (io_counters only).
DeniedOrUnsupported(q) ==
    /\ Raises(prov[q])
    /\ prov[q].exc \in {AccessDenied} \cup (IF q = "io_counters" THEN {AttributeError} ELSE {})

\* The handle and the six basic fields were obtained, and each optional query
\* answered or failed on permission or platform support.
BasicsObtained ==
    /\ InfoCall
    /\ prov["Process"].kind = "ok"
    /\ \A i \in 1..6 : prov[BasicQueries[i]].kind = "ok"
    /\ \A i \in 1..4 :
            prov[OptionalQueries[i]].kind = "ok" \/ DeniedOrUnsupported(OptionalQueries[i])

\* C4: in get_process_info, with the handle and the basic fields obtained,
\* every optional sub-query that fails on permission or platform support puts
\* its own field(s) on the fallback ("[Access Denied]" for cmdline and exe, 0
\* for the memory and the I/O byte counts), and every other field carries the
\* provider's value: no failure changes another field.
C4_OptionalFieldsFallBackAlone ==
    BasicsObtained =>
        /\ ~ret.raised
        /\ ret.value.pid = call.pid
        /\ ret.value.name = prov["name"].value
        /\ ret.value.status = prov["status"].value
        /\ ret.value.username = prov["username"].value
        /\ ret.value.cpu_percent = prov["cpu_percent"].value
        /\ ret.value.memory_percent = prov["memory_percent"].value
        /\ ret.value.created_time = prov["create_time"].value
        /\ ret.value.cmdline =
                (IF Raises(prov["cmdline"]) THEN "[Access Denied]" ELSE Join(prov["cmdline"].value))
        /\ ret.value.exe =
                (IF Raises(prov["exe"]) THEN "[Access Denied]" ELSE prov["exe"].value)
        /\ ret.value.memory_rss =
                (IF Raises(prov["memory_info"]) THEN 0 ELSE prov["memory_info"].value.rss)
        /\ ret.value.memory_vms =
                (IF Raises(prov["memory_info"]) THEN 0 ELSE prov["memory_info"].value.vms)
        /\ ret.value.io_read_bytes =
                (IF Raises(prov["io_counters"]) THEN 0 ELSE prov["io_counters"].value.read_bytes)
        /\ ret.value.io_write_bytes =
                (IF Raises(prov["io_counters"]) THEN 0 ELSE prov["io_counters"].value.write_bytes)

\* C4 witness: cmdline denied and io_counters unsupported while exe and the
\* memory info answered; the joined command line is seen in another run.
C4_Witness ==
    /\ BasicsObtained
    /\ pc = "info_done"
    /\ DeniedOrUnsupported("cmdline")
    /\ prov["exe"].kind = "ok"
    /\ prov["memory_info"].kind = "ok"
    /\ prov["io_counters"] = Raise(AttributeError)
    /\ ret.value.exe = "/bin/sh"
    /\ ret.value.memory_rss = 4096

\* The markers the fallback dict puts in its string fields.
NotAvailableMarkers == {"[Process not available]", "unknown", ""}

\* The string fields of the returned record hold not-available markers.
StringFieldsMarked ==
    /\ ret.value.name \in NotAvailableMarkers
    /\ ret.value.status \in NotAvailableMarkers
    /\ ret.value.username \in NotAvailableMarkers
    /\ ret.value.cmdline \in NotAvailableMarkers
    /\ ret.value.exe \in NotAvailableMarkers

\* The numeric fields of the returned record other than the pid are zero.
MeasurementsZeroed ==
    /\ ret.value.cpu_percent = 0
    /\ ret.value.memory_percent = 0
    /\ ret.value.created_time = 0
    /\ ret.value.memory_rss = 0
    /\ ret.value.memory_vms = 0
    /\ ret.value.io_read_bytes = 0
    /\ ret.value.io_write_bytes = 0

\* C5 as stated: get_process_info never raises on no-such-process,
\* access-denied or zombie failures, and when the handle cannot be obtained the
\* record has markers in all string fields and zero in all numeric fields, the
\* pid included.
C5_SentinelAllNumericZero ==
    InfoCall =>
        /\ ~ret.raised
        /\ Raises(prov["Process"]) =>
            /\ StringFieldsMarked
            /\ MeasurementsZeroed
            /\ ret.value.pid = 0

\* C5 as amended: get_process_info never raises on no-such-process,
\* access-denied or zombie failures of the handle or of any query, a process
\* vanishing between the sub-queries included; when the handle cannot be
\* obtained the record has markers in all string fields and zero in all
\* numeric fields except the pid, which is the pid asked for.
C5_SentinelKeepsPid ==
    InfoCall =>
        /\ ~ret.raised
        /\ pc # "raised"
        /\ Raises(prov["Process"]) =>
            /\ StringFieldsMarked
            /\ MeasurementsZeroed
            /\ ret.value.pid = call.pid

\* C5 witness: the handle was refused and the call returned.
C5_Witness ==
    /\ InfoCall
    /\ pc = "info_done"
    /\ prov["Process"] = Raise(AccessDenied)
    /\ ret.value.name = "[Process not available]"

\* The fields of the ProcessRecord data model, by the keys the code gives them.
RecordFields ==
    {"pid", "name", "status", "username", "cpu_percent", "memory_percent", "created_time",
     "cmdline", "exe", "memory_rss", "memory_vms", "io_read_bytes", "io_write_bytes"}

\* The fields of a record of get_process_list.
ListFields == {"pid", "name", "cpu_percent", "memory_percent", "status"}

\* No field of a detail record is None.
DetailFieldsNonNull(r) ==
    /\ r.pid \in Nat
    /\ r.name # None
    /\ r.status # None
    /\ r.username # None
    /\ r.cpu_percent \in Nat
    /\ r.memory_percent \in Nat
    /\ r.created_time \in Nat
    /\ r.cmdline # None
    /\ r.exe # None
    /\ r.memory_rss \in Nat
    /\ r.memory_vms \in Nat
    /\ r.io_read_bytes \in Nat
    /\ r.io_write_bytes \in Nat

\* No field of a list record is None.
ListFieldsNonNull(r) ==
    /\ r.pid \in Nat
    /\ r.name \in Seq(Nat)
    /\ r.cpu_percent \in Nat
    /\ r.memory_percent \in Nat
    /\ r.status # None

\* C6 as stated: every record returned by get_process_list and by
\* get_process_info has every field of the data model, none of them null.
C6_EveryRecordHasEveryField ==
    /\ pc = "info_done" => DOMAIN ret.value = RecordFields
    /\ ListDone => \A i \in 1..Len(ret.value) : DOMAIN ret.value[i] = RecordFields

\* C6 as amended: every record returned by get_process_info has every field
\* of the data model, none of them null, on the full-success path, on every
\* partial-failure path and on the fallback path; every record returned by
\* get_process_list has exactly pid, name, cpu_percent, memory_percent and
\* status, none of them null.
C6_DetailCompleteListBasic ==
    /\ pc = "info_done" =>
        /\ DOMAIN ret.value = RecordFields
        /\ DetailFieldsNonNull(ret.value)
    /\ ListDone =>
        \A i \in 1..Len(ret.value) :
            /\ DOMAIN ret.value[i] = ListFields
            /\ ListFieldsNonNull(ret.value[i])

\* C6 witness: the process vanished at memory_info, after cmdline and exe had
\* answered, and the fallback record came back.
C6_Witness ==
    /\ pc = "info_done"
    /\ prov["exe"].kind = "ok"
    /\ prov["memory_info"] = Raise(NoSuchProcess)
    /\ ret.value.name = "[Process not available]"

\* get_system_info was called (and has returned or raised).
SystemCall == call.fn = "get_system_info"

\* The six sub-metric queries of the claim.
SubMetrics ==
    {"cpu_percent", "virtual_memory", "swap_memory", "disk_usage", "sensors_temperatures",
     "boot_time"}

\* The first reading of the first sensor of an answered sensor map, None
\* when there is none or it has no current value.
FirstReading(temps) ==
    IF temps = <<>> THEN None
    ELSE IF temps[1] = <<>> THEN None
    ELSE IF "current" \in DOMAIN temps[1][1] THEN temps[1][1].current
    ELSE None

\* The returned snapshot carries the value the provider answered to query q.
Carried(q) ==
    CASE q = "cpu_percent" -> ret.value.cpu.percent = prov.cpu_percent.value
      [] q = "virtual_memory" ->
            /\ ret.value.memory.total = prov.virtual_memory.value.total
            /\ ret.value.memory.available = prov.virtual_memory.value.available
            /\ ret.value.memory.percent = prov.virtual_memory.value.percent
            /\ ret.value.memory.used = prov.virtual_memory.value.used
      [] q = "swap_memory" ->
            /\ ret.value.swap.total = prov.swap_memory.value.total
            /\ ret.value.swap.used = prov.swap_memory.value.used
            /\ ret.value.swap.percent = prov.swap_memory.value.percent
      [] q = "disk_usage" ->
            /\ ret.value.disk.total = prov.disk_usage.value.total
            /\ ret.value.disk.used = prov.disk_usage.value.used
            /\ ret.value.disk.percent = prov.disk_usage.value.percent
      [] q = "sensors_temperatures" ->
            ret.value.temperature = FirstReading(prov.sensors_temperatures.value)
      [] q = "boot_time" ->
            /\ ret.value.boot_time = prov.boot_time.value
            /\ ret.value.uptime_seconds = prov.platform.now - prov.boot_time.value

\* The returned snapshot has the fallback of the sub-metric of query q.
Degraded(q) ==
    CASE q = "cpu_percent" -> ret.value.cpu.percent = 0
      [] q = "virtual_memory" ->
            ret.value.memory = [total |-> 0, available |-> 0, percent |-> 0, used |-> 0]
      [] q = "swap_memory" -> ret.value.swap = [total |-> 0, used |-> 0, percent |-> 0]
      [] q = "disk_usage" ->
            /\ ret.value.disk.total = 0
            /\ ret.value.disk.used = 0
            /\ ret.value.disk.percent = 0
      [] q = "sensors_temperatures" -> ret.value.temperature = None
      [] q = "boot_time" -> ret.value.boot_time = 0 /\ ret.value.uptime_seconds = 0

\* C7 as stated: when a single sub-metric query of get_system_info fails, that
\* sub-metric has its fallback and every other sub-metric carries the value the
\* provider returned.
C7_AnySingleFailureDegradesAlone ==
    (SystemCall /\ ~ret.raised) =>
        \A q \in SubMetrics :
            (Raises(prov[q]) /\ \A o \in SubMetrics \ {q} : ~Raises(prov[o])) =>
                /\ Degraded(q)
                /\ \A o \in SubMetrics \ {q} : prov[o].kind = "ok" => Carried(o)

\* The queries of get_system_info that have no try/except of their own.
Unguarded ==
    {"cpu_percent", "virtual_memory", "swap_memory", "boot_time", "cpu_count",
     "cpu_count_physical"}

\* C7 as amended: a failure of the disk-usage query or of the temperature query
\* degrades only that sub-metric (disk total, used and percent to 0 with the
\* path kept; temperature to None) and the other sub-metrics carry the values
\* the provider returned; a failure of the CPU percent, core count, virtual
\* memory, swap or boot time query makes the whole snapshot the all-fallback
\* one.
C7_DiskAndTemperatureDegradeAlone ==
    SystemCall =>
        /\ ~ret.raised
        /\ (\E q \in Unguarded : Raises(prov[q])) => ret.value = FallbackSnapshot
        /\ (\A q \in Unguarded : ~Raises(prov[q])) =>
            /\ \A q \in {"disk_usage", "sensors_temperatures"} :
                    Raises(prov[q]) => Degraded(q)
            /\ \A q \in SubMetrics : prov[q].kind = "ok" => Carried(q)
            /\ ret.value.disk.path = DiskPath(prov.platform)
            /\ ret.value.cpu.count_logical = prov.cpu_count.value

\* C7 witness: the disk query failed, the sensors answered 45.0 and the
\* snapshot still carries the provider's memory figures.
C7_Witness ==
    /\ SystemCall
    /\ pc = "system_done"
    /\ Raises(prov.disk_usage)
    /\ prov.sensors_temperatures.kind = "ok"
    /\ ret.value.temperature = "45.0"
    /\ ret.value.memory.total = 16000
    /\ ret.value.disk.total = 0

\* The shape of a system snapshot.
SnapshotShape(v) ==
    /\ DOMAIN v = {"cpu", "memory", "swap", "disk", "temperature", "boot_time", "uptime_seconds"}
    /\ DOMAIN v.cpu = {"percent", "count_logical", "count_physical"}
    /\ DOMAIN v.memory = {"total", "available", "percent", "used"}
    /\ DOMAIN v.swap = {"total", "used", "percent"}
    /\ DOMAIN v.disk = {"total", "used", "percent", "path"}

\* C8: get_system_info never raises, whatever queries fail, and every snapshot
\* it returns, the all-fallback one included, has the same shape: cpu{percent,
\* count_logical, count_physical}, memory{total, available, percent, used},
\* swap{total, used, percent}, disk{total, used, percent, path}, temperature,
\* boot_time, uptime_seconds.
C8_SnapshotShapeAlways ==
    SystemCall =>
        /\ ~ret.raised
        /\ pc # "raised"
        /\ SnapshotShape(ret.value)

\* C8 witness: the first query failed and the all-fallback snapshot came back.
C8_Witness ==
    /\ SystemCall
    /\ pc = "system_done"
    /\ Raises(prov.cpu_percent)
    /\ ret.value.boot_time = 0
    /\ ret.value.disk.path = "/"

\* kill_process has returned.
KillDone == pc = "kill_done"

\* The signal the force argument of the call asks for.
AskedSignal == [pid |-> call.pid, signal |-> IF call.force THEN "kill" ELSE "terminate"]

\* The handle was opened and the signal was sent.
BothSucceeded == prov.Process.kind = "ok" /\ prov.signal.kind = "ok"

\* success=true with no error reason.
ReportsSuccess == ret.value.success /\ ret.value.error = None

\* C9 as stated: every kill_process call sends exactly one signal, kill with
\* force and terminate without, and reports success with no error reason
\* exactly when the handle and the signal both succeeded.
C9_ExactlyOneSignalPerCall ==
    KillDone =>
        /\ signals = <<AskedSignal>>
        /\ ReportsSuccess <=> BothSucceeded

\* C9 as amended: a kill_process call whose handle opens sends exactly one
\* signal, kill with force and terminate without, never both and never the
\* other one; a call whose handle cannot be opened sends none; the call reports
\* success with no error reason exactly when the handle and the signal both
\* succeeded.
C9_OneSignalOnceHandleOpens ==
    KillDone =>
        /\ prov.Process.kind = "ok" => signals = <<AskedSignal>>
        /\ Raises(prov.Process) => signals = <<>>
        /\ ReportsSuccess <=> BothSucceeded
        /\ ~ReportsSuccess => (~ret.value.success /\ ret.value.error # None)

\* C9 witness: a forced call sent kill, once, and reported success.
C9_Witness ==
    /\ KillDone
    /\ call.force
    /\ signals = <<[pid |-> call.pid, signal |-> "kill"]>>
    /\ ReportsSuccess

\* The exception the provider raised in the kill_process call, "none" if none.
KillRaised ==
    IF Raises(prov.Process) THEN prov.Process.exc
    ELSE IF Raises(prov.signal) THEN prov.signal.exc
    ELSE "none"

\* The error reason that tells the provider's conditions apart.
ReasonFor(e) ==
    CASE e = NoSuchProcess -> "Process does not exist"
      [] e = AccessDenied -> "Access denied (try running as administrator)"
      [] e = ZombieProcess -> "Process is a zombie process"
      [] OTHER -> Message(e)

\* C10: kill_process never raises, and for each provider failure it returns
\* success=false with the reason of that condition: process does not exist for
\* no-such-process, access denied for access-denied, process is a zombie for
\* zombie, the platform's message for any other error.
C10_ReasonTellsConditionsApart ==
    call.fn = "kill_process" =>
        /\ ~ret.raised
        /\ KillRaised # "none" =>
            /\ ~ret.value.success
            /\ ret.value.error = ReasonFor(KillRaised)

\* The records get_process_list has collected so far, or returned.
Reported == IF pc = "list_done" THEN ret.value ELSE result

\* C17: within one get_process_list call every priming cpu_percent() call
\* is made before the settling delay and every second-pass query after it:
\* before the delay no handle has been asked twice and nothing is collected,
\* after it the primed handles are fixed. The cpu_percent of a reported record
\* is the value the second cpu_percent() call on its own handle answered, not
\* the priming call's, and a pid that was not primed is never reported.
C17_SecondSampleAfterDelay ==
    /\ pc = "phase1" =>
        /\ result = <<>>
        /\ \A p \in Pids : Len(cpu_calls[p]) = (IF p \in Range(processes) THEN 1 ELSE 0)
    /\ pc \in {"phase2", "list_done"} =>
        /\ \A p \in Pids : Len(cpu_calls[p]) >= 1 <=> p \in Range(processes)
        /\ \A p \in Range(processes) : cpu_calls[p][1] = Baseline
        /\ \A i \in 1..Len(Reported) :
            LET r == Reported[i] IN
            /\ r.pid \in Range(processes)
            /\ Len(cpu_calls[r.pid]) = 2
            /\ r.cpu_percent = cpu_calls[r.pid][2]

\* A call returned a record, dropped a handle after its second cpu_percent()
\* call, and skipped a pid it could not prime.
C17_Witness ==
    /\ pc = "list_done"
    /\ Len(ret.value) = 1
    /\ \E p \in Range(processes) :
        /\ p \notin Range(PidsOf(ret.value))
        /\ Len(cpu_calls[p]) = 2
    /\ \E p \in Range(pids) : p \notin Range(processes)

\* A process-list refresh completes in this step: update_process_list returns
\* to the timer, to the sort button's handler or to the kill workflow.
RefreshCompletes == busy # "none" /\ busy' = "none"

\* C11: when a refresh of the process list completes, the selection is none
\* or a pid of the list just collected; if the pid selected before is not in
\* that list, the selection is none and the detail view shows its
\* placeholder, with no pid.
C11_RefreshReconcilesSelection ==
    [][RefreshCompletes =>
        /\ selected_pid' = NoPid \/ PidExists(table_processes', selected_pid')
        /\ (selected_pid > 0 /\ ~PidExists(table_processes', selected_pid)) =>
            /\ selected_pid' = NoPid
            /\ detail_pid' = NoPid
            /\ detail_content' = Placeholder]_vars

\* A tick found pid 10 selected, collected a list without it and cleared the
\* selection and the detail view.
C11_Witness ==
    /\ busy = "none"
    /\ event.name = "tick"
    /\ event.selected_before = 10
    /\ Len(table_processes) >= 1
    /\ ~PidExists(table_processes, 10)
    /\ selected_pid = NoPid
    /\ detail_pid = NoPid
    /\ detail_content = Placeholder

\* The handler that ran last called get_process_info.
FetchedDetail == \E i \in 1..Len(event.calls) : event.calls[i].fn = "get_process_info"

\* C12: a refresh that finds the selected pid in the list it collected leaves
\* the selection as it was and, when a timer tick or a sort button asked for
\* it, leaves the detail view's pid and panel as they were; get_process_info
\* is called by the row-selection handler and by the detail Refresh button
\* only, never by a refresh of the process list.
C12_RefreshLeavesDetailAlone ==
    [][/\ (RefreshCompletes /\ PidExists(table_processes', selected_pid)) =>
            /\ selected_pid' = selected_pid
            /\ busy # "kill" => (detail_pid' = detail_pid /\ detail_content' = detail_content)
       /\ FetchedDetail' => event'.name \in {"row_selected", "refresh_detail"}]_vars

\* A tick found the selected pid 10 in its list: the selection and the detail
\* panel of pid 10 are still there and the tick called get_process_list only.
C12_Witness ==
    /\ busy = "none"
    /\ event.name = "tick"
    /\ event.selected_before = 10
    /\ PidExists(table_processes, 10)
    /\ selected_pid = 10
    /\ detail_pid = 10
    /\ detail_content.pid = 10
    /\ event.calls = <<CallOf("get_process_list", NoPid, FALSE)>>

\* The handler that ran last called kill_process.
KillCalled == \E i \in 1..Len(event.calls) : event.calls[i].fn = "kill_process"

\* A handler starts in this step and leaves the log of event'.
HandlerRuns == busy = "none" /\ event' # event

\* C13: kill_process is called only by the step that dismisses an open
\* confirmation dialog with terminate or force-kill, a dialog the kill button
\* opened for a positive pid; dismissing the dialog with cancel calls nothing
\* and changes nothing but the dialog; pressing the kill button with no
\* selection opens no dialog and calls nothing.
C13_KillOnlyAfterConfirmation ==
    [][/\ (HandlerRuns /\ KillCalled') =>
            /\ dialog.open
            /\ dialog.pid > 0
            /\ ~dialog'.open
            /\ event'.name \in {"terminate", "force_kill"}
            /\ event'.calls[1].force = (event'.name = "force_kill")
       /\ (HandlerRuns /\ event'.name = "cancel") =>
            /\ dialog.open
            /\ ~dialog'.open
            /\ event'.calls = <<>>
            /\ event'.notify = NoNotice
            /\ UNCHANGED <<table_processes, sort_field, selected_pid, detail_pid,
                           detail_content, busy>>
       /\ (HandlerRuns /\ event'.name = "kill_process" /\ selected_pid = NoPid) =>
            /\ ~dialog'.open
            /\ event'.calls = <<>>
            /\ UNCHANGED <<table_processes, sort_field, selected_pid, detail_pid,
                           detail_content, busy>>]_vars

\* The dialog was dismissed with force-kill and kill_process(10, force=True)
\* was called.
C13_Witness ==
    /\ event.name = "force_kill"
    /\ event.selected_before = 10
    /\ event.calls[1] = CallOf("kill_process", 10, TRUE)
    /\ ~dialog.open

\* The kill workflow has run to its end after kill_process reported success.
KillWorkflowSucceeded ==
    /\ busy = "none"
    /\ event.name \in {"terminate", "force_kill"}
    /\ event.notify.title = "Success"

\* C14: when kill_process reports success, the kill workflow ends with the
\* selected pid of the process table and the pid of the detail view both
\* none, whatever the refresh collected; it has called get_process_list
\* within the workflow, right after kill_process, and has notified success.
C14_SuccessClearsSelection ==
    KillWorkflowSucceeded =>
        /\ selected_pid = NoPid
        /\ detail_pid = NoPid
        /\ Len(event.calls) = 2
        /\ event.calls[1].fn = "kill_process"
        /\ event.calls[2].fn = "get_process_list"

\* C15: when kill_process reports failure, the kill workflow posts an error
\* notification that carries the returned error reason verbatim, calls
\* nothing else (no refresh), and leaves the selected pid, the detail view's
\* pid and panel, the process list and the sort field as they were.
C15_FailureLeavesStateAlone ==
    [][(HandlerRuns /\ KillCalled' /\ ~event'.result.success) =>
        /\ event'.notify.title = "Error"
        /\ event'.notify.message = "Failed to terminate process: " \o event'.result.error
        /\ Len(event'.calls) = 1
        /\ busy' = "none"
        /\ UNCHANGED <<selected_pid, detail_pid, detail_content, table_processes, sort_field>>]_vars

\* kill_process(10) answered access denied: the notification says so and pid
\* 10 is still selected.
C15_Witness ==
    /\ event.name = "terminate"
    /\ event.calls = <<CallOf("kill_process", 10, FALSE)>>
    /\ event.result.error = "Access denied (try running as administrator)"
    /\ event.notify.message =
        "Failed to terminate process: Access denied (try running as administrator)"
    /\ selected_pid = 10
    /\ detail_pid = 10
    /\ busy = "none"

\* The smaller of two numbers.
Min(a, b) == IF a < b THEN a ELSE b

\* The list command has printed its output.
ListPrinted == pc = "cli_done"

\* C16: for each of the sort keys cpu, memory, name, pid and every count
\* N >= 0 the list command ends without an error, prints the banner "Top N
\* processes sorted by <key>", then the PID / CPU% / MEM% / NAME header, then
\* one line for each of the first min(N, total) records get_process_list(key)
\* returned, in that order, and nothing more.
C16_ListPrintsFirstN ==
    (ListPrinted /\ call.count >= 0 /\ call.sort_by \in {"cpu", "memory", "name", "pid"}) =>
        LET n == Min(call.count, Len(ret.value)) IN
        /\ ~ret.raised
        /\ Len(stdout) = 3 + n
        /\ stdout[1].kind = "Top N processes sorted by"
        /\ stdout[1].count = call.count
        /\ stdout[1].sort_by = call.sort_by
        /\ stdout[2].kind = "PID CPU% MEM% NAME"
        /\ \A i \in 1..n :
            /\ stdout[3 + i].kind = "process"
            /\ stdout[3 + i].pid = ret.value[i].pid
            /\ stdout[3 + i].cpu_percent = ret.value[i].cpu_percent
            /\ stdout[3 + i].memory_percent = ret.value[i].memory_percent
            /\ stdout[3 + i].name = ret.value[i].name
        /\ \A i \in 1..(Len(ret.value) - 1) :
            InOrder(call.sort_by, ret.value[i], ret.value[i + 1])

\* list --sort memory --count 2 with three processes collected: two lines,
\* and the process that uses more cpu but less memory comes second.
C16_Witness ==
    /\ ListPrinted
    /\ call.sort_by = "memory"
    /\ call.count = 2
    /\ Len(ret.value) = 3
    /\ Len(stdout) = 5
    /\ stdout[4].cpu_percent < stdout[5].cpu_percent

\* A collection cycle of the process list is in the sleep between its passes.
InSettlingDelay == busy # "none"

\* C18: while a collection cycle of the process list is in its settling
\* delay, the events that have nothing to do with it can be handled: the
\* system-info tick, the selection of a row of the table on screen and the
\* detail view's buttons (when no dialog covers them).
C18_UiHandledDuringDelay ==
    InSettlingDelay =>
        /\ ENABLED SystemInfoTick
        /\ (~dialog.open /\ table_processes # <<>>) => ENABLED RowSelected
        /\ ~dialog.open => ENABLED RefreshDetailPressed

\* No event handler is running.
HandlersComplete == busy = "none"

\* C19: whenever the event handlers have completed, ProcessTable.processes
\* is a whole list (one record for each of its pids) in the order the current
\* sort_field asks for; a sort button changes sort_field and collects again
\* inside its own handler, so the list held is not ordered by an earlier key.
C19_HeldListFollowsSortField ==
    HandlersComplete =>
        /\ \A i \in 1..(Len(table_processes) - 1) :
            InOrder(sort_field, table_processes[i], table_processes[i + 1])
        /\ \A i, j \in 1..Len(table_processes) :
            table_processes[i].pid = table_processes[j].pid => i = j

\* A sort-button handler has completed with sort_field = "memory": the list
\* holds two processes, the one with less cpu and more memory first.
C19_Witness ==
    /\ HandlersComplete
    /\ event.name = "sort"
    /\ sort_field = "memory"
    /\ Len(table_processes) = 2
    /\ table_processes[1].cpu_percent < table_processes[2].cpu_percent
    /\ table_processes[1].memory_percent > table_processes[2].memory_percent

\* The selection and the detail view are empty.
SelectionCleared ==
    /\ selected_pid = NoPid
    /\ detail_pid = NoPid
    /\ detail_content = Placeholder

\* C20: with the 2-second timer of the process list firing fairly, a
\* selected pid that has left every later list for good is followed by the
\* selection being none and the detail view showing its placeholder, unless
\* the user has selected another row in between; and a selection that is none
\* becomes a pid only when the user selects a row.
C20_GoneSelectionIsCleared ==
    /\ (selected_pid \in gone) ~>
            (SelectionCleared \/ (selected_pid # NoPid /\ selected_pid \notin gone))
    /\ [][(selected_pid = NoPid /\ selected_pid' # NoPid) => event'.name = "row_selected"]_vars

\* Pid 10 was selected and has exited for good; a tick has cleared the
\* selection and the detail view, with another process still listed.
C20_Witness ==
    /\ gone = {10}
    /\ busy = "none"
    /\ event.name = "tick"
    /\ event.selected_before = 10
    /\ SelectionCleared
    /\ Len(table_processes) = 1

\* C21: whenever the kill workflow calls kill_process, the pid it passes is
\* the positive pid of the confirmation dialog that was open, whatever
\* refreshes ran while the dialog was open; kill_process is never called
\* with -1 or with another pid than the confirmed one.
C21_KillsTheConfirmedPid ==
    [][(HandlerRuns /\ KillCalled') =>
        /\ dialog.pid > 0
        /\ event'.calls[1].pid = dialog.pid]_vars

\* C22: after every handler has completed (row selection, periodic refresh,
\* sort change, detail refresh, outcome of the kill workflow) the pid of the
\* detail view is -1 or the table's selected pid; the two copies of the
\* selection never name two different processes.
C22_DetailPidIsNoneOrSelection ==
    HandlersComplete => (detail_pid = NoPid \/ detail_pid = selected_pid)

\* A row was selected and a later periodic refresh, which still lists the
\* process, has completed: both copies name the same process.
C22_Witness ==
    /\ HandlersComplete
    /\ event.name = "tick"
    /\ selected_pid > 0
    /\ detail_pid = selected_pid
    /\ PidExists(table_processes, selected_pid)

====
